---- MODULE Spec2Model ----
(***************************************************************************)
(* A model of .github/docgen.py, the generator of the wallpaper gallery's  *)
(* root README and per-category README files.                              *)
(*                                                                         *)
(* Python strings are sequences of one-character strings, so that          *)
(* str.format, str.split, str.casefold, int() and Path.stem are computed   *)
(* character by character.  Python dicts whose iteration order is          *)
(* observable are sequences of [name, ...] records with distinct names;    *)
(* the configuration (only looked up by key) is a function.  Template file *)
(* names are atoms: the code only uses them as dictionary keys.            *)
(***************************************************************************)
EXTENDS Integers, Sequences, FiniteSets, TLC

VARIABLES
    tree,        \* the working directory: listdir(".") order, each entry with its own listing
    tdir,        \* .github/templates: whether it exists, and its files in listdir order
    manifest,    \* .github/templates.json: absent, invalid, or a JSON object
    config,      \* the configuration mapping (key -> string)
    templates,   \* prime_templates' templates argument (loaded when the function is defined)
    idx,         \* position of prime_templates' loop in templates
    result,      \* prime_templates' result dict, as built so far
    warnings,    \* the "needs variable" warnings printed so far
    pc,          \* where the process is
    exc,         \* the exception that ended the process ("none" while it runs)
    stdout,      \* what the Sink printed in dry-run mode
    written,     \* the paths the Sink wrote, in order
    bootLog,     \* per call of create_default_templates, the set of template files it wrote
    categories,  \* generate_shuffled's categories argument (its lists are shuffled in place)
    shuffled,    \* generate_shuffled's return value
    original,    \* history: categories as passed to generate_shuffled, before the shuffle
    bodyOut,     \* handle_body's results list, each piece tagged with the line that appended it
    catOut,      \* handle_category's results, each with the category and pictures it lists
    treeAtBody,  \* history: the directory tree handle_body scanned
    treeAtCat,   \* history: the directory tree handle_category scanned
    run,         \* number of the generation run in progress
    firstPartial,\* history: the partial mapping of the first run
    tree0        \* history: the directory tree when the first run started

vars == <<tree, tdir, manifest, config, templates, idx, result, warnings, pc, exc,
          stdout, written, bootLog, categories, shuffled, original, bodyOut, catOut,
          treeAtBody, treeAtCat, run, firstPartial, tree0>>

(***************************************************************************)
(* Strings                                                                 *)
(***************************************************************************)
Min(a, b) == IF a < b THEN a ELSE b

Max(a, b) == IF a > b THEN a ELSE b

Range(s) == {s[i] : i \in DOMAIN s}

NL == "\n"

README == <<"R", "E", "A", "D", "M", "E", ".", "m", "d">>

Digits == <<"0", "1", "2", "3", "4", "5", "6", "7", "8", "9">>

IsDigit(c) == \E d \in DOMAIN Digits : Digits[d] = c

DigitValue(c) == (CHOOSE d \in DOMAIN Digits : Digits[d] = c) - 1

RECURSIVE Repeat(_, _)
\* "\n" * n : the empty string when n <= 0
Repeat(c, n) == IF n <= 0 THEN <<>> ELSE <<c>> \o Repeat(c, n - 1)

RECURSIVE Join(_, _)
\* sep.join(parts)
Join(sep, parts) ==
    IF parts = <<>> THEN <<>>
    ELSE IF Len(parts) = 1 THEN parts[1]
    ELSE parts[1] \o sep \o Join(sep, Tail(parts))

RECURSIVE Split(_, _)
\* s.split(sep) for a one-character sep: "" gives [""]
Split(s, sep) ==
    IF \A i \in DOMAIN s : s[i] # sep THEN <<s>>
    ELSE LET i == CHOOSE k \in DOMAIN s : s[k] = sep /\ \A j \in 1..(k - 1) : s[j] # sep
         IN  <<SubSeq(s, 1, i - 1)>> \o Split(SubSeq(s, i + 1, Len(s)), sep)

\* str.casefold on the letters the model uses
FoldChar(c) ==
    CASE c = "T" -> "t"
      [] c = "R" -> "r"
      [] c = "U" -> "u"
      [] c = "E" -> "e"
      [] c = "F" -> "f"
      [] c = "A" -> "a"
      [] c = "L" -> "l"
      [] c = "S" -> "s"
      [] OTHER -> c

Casefold(s) == [i \in DOMAIN s |-> FoldChar(s[i])]

\* int(s): an optional sign and decimal digits, or ValueError
ParseInt(s) ==
    LET neg == s # <<>> /\ s[1] = "-"
        ds == IF s # <<>> /\ s[1] \in {"-", "+"} THEN Tail(s) ELSE s
        RECURSIVE Val(_, _)
        Val(d, acc) == IF d = <<>> THEN acc ELSE Val(Tail(d), 10 * acc + DigitValue(d[1]))
    IN  IF ds = <<>> \/ \E i \in DOMAIN ds : ~IsDigit(ds[i])
        THEN [ok |-> FALSE, val |-> 0]
        ELSE [ok |-> TRUE, val |-> IF neg THEN 0 - Val(ds, 0) ELSE Val(ds, 0)]

\* PurePath.stem: the name up to its last dot, unless that dot is first or last
Stem(name) ==
    LET dots == {i \in DOMAIN name : name[i] = "."}
    IN  IF dots = {} THEN name
        ELSE LET i == CHOOSE d \in dots : \A e \in dots : e <= d
             IN  IF 1 < i /\ i < Len(name) THEN SubSeq(name, 1, i - 1) ELSE name

\* seq[:k], Python's slice from the start (a negative k counts from the end)
SliceTo(seq, k) ==
    IF k >= 0 THEN SubSeq(seq, 1, Min(k, Len(seq)))
    ELSE SubSeq(seq, 1, Max(Len(seq) + k, 0))

\* left | right on dicts: right's entries win
Merge(left, right) ==
    [k \in DOMAIN left \cup DOMAIN right |-> IF k \in DOMAIN right THEN right[k] ELSE left[k]]

(***************************************************************************)
(* str.format with keyword arguments kw: literal text, "{{" and "}}"       *)
(* escapes, and replacement                                                *)
(* fields, processed left to right; the first error ends it.  Field names  *)
(* are plain (no "!", ":", "." or "[" occurs in the modelled templates).   *)
(***************************************************************************)
FormatError(kind, key) == [status |-> kind, text |-> <<>>, key |-> key]

RECURSIVE FormatFrom(_, _, _, _)
FormatFrom(s, i, kw, acc) ==
    IF i > Len(s) THEN [status |-> "ok", text |-> acc, key |-> <<>>]
    ELSE IF s[i] = "}" THEN
        IF i < Len(s) /\ s[i + 1] = "}"
        THEN FormatFrom(s, i + 2, kw, Append(acc, "}"))
        ELSE FormatError("ValueError", <<>>)        \* Single '}' encountered
    ELSE IF s[i] = "{" THEN
        IF i = Len(s) THEN FormatError("ValueError", <<>>)   \* Single '{' encountered
        ELSE IF s[i + 1] = "{" THEN FormatFrom(s, i + 2, kw, Append(acc, "{"))
        ELSE LET stops == {j \in (i + 1)..Len(s) : s[j] \in {"{", "}"}}
                 j == IF stops = {} THEN Len(s) + 1
                      ELSE CHOOSE m \in stops : \A n \in stops : m <= n
                 name == SubSeq(s, i + 1, j - 1)
             IN  IF j > Len(s) \/ s[j] = "{"
                 THEN FormatError("ValueError", <<>>)   \* unterminated field, or '{' in it
                 ELSE IF \A n \in DOMAIN name : IsDigit(name[n])
                 THEN FormatError("IndexError", name)   \* positional: no positional args
                 ELSE IF name \notin DOMAIN kw
                 THEN FormatError("KeyError", name)
                 ELSE FormatFrom(s, j + 1, kw, acc \o kw[name])
    ELSE FormatFrom(s, i + 1, kw, Append(acc, s[i]))

Format(s, kw) == FormatFrom(s, 1, kw, <<>>)

(***************************************************************************)
(* Category Scanner                                                        *)
(***************************************************************************)
\* The exclude argument is a str (config["exclude"]) or a list (the default [])
StrArg(s) == [str |-> TRUE, val |-> s]

ListArg(l) == [str |-> FALSE, val |-> l]

\* A mutant of IsPicture that also lists a category's own README.md
IsPictureNoFilter(picture) == TRUE

\* line 22: if picture != "README.md"
IsPicture(picture) == picture # README

\* line 24: not category.startswith(".") and not isfile(category) and category not in exclude
IsCategory(entry, exclude) ==
    entry.name[1] # "." /\ ~entry.isfile /\ entry.name \notin Range(exclude)

CategoricalWallpapers(t, exclude) ==
    LET ex == IF exclude.str THEN Split(exclude.val, ":") ELSE exclude.val
        cats == SelectSeq(t, LAMBDA e : IsCategory(e, ex))
    IN  [i \in DOMAIN cats |->
            [name |-> cats[i].name,
             pictures |-> SelectSeq(cats[i].entries, LAMBDA p : IsPicture(p))]]

(***************************************************************************)
(* Template Store                                                          *)
(***************************************************************************)
HasFile(files, name) == \E i \in DOMAIN files : files[i].name = name

\* lines 47-48: a list value is joined with "\n", a string is written as it is
ManifestText(content) == IF content.list THEN Join(<<NL>>, content.val) ELSE content.val

RECURSIVE WriteMissing(_, _, _)
\* lines 44-49: the files after the loop over the manifest's items, and the names written
WriteMissing(files, items, wrote) ==
    IF items = <<>> THEN [files |-> files, wrote |-> wrote]
    ELSE IF HasFile(files, items[1].name) THEN WriteMissing(files, Tail(items), wrote)
    ELSE WriteMissing(Append(files, [name |-> items[1].name,
                                     content |-> ManifestText(items[1].content)]),
                      Tail(items), Append(wrote, items[1].name))

\* A mutant of CreateDefaultTemplates that rewrites every manifest entry, existing or not
CreateDefaultTemplatesOverwrite(td, mf) ==
    IF mf.kind # "object" THEN [exists |-> TRUE, files |-> td.files, wrote |-> <<>>]
    ELSE LET kept == SelectSeq(td.files,
                         LAMBDA f : \A i \in DOMAIN mf.items : mf.items[i].name # f.name)
             w == WriteMissing(kept, mf.items, <<>>)
         IN  [exists |-> TRUE, files |-> w.files, wrote |-> w.wrote]

\* create_default_templates: the template directory after the call, and the files it wrote.
\* A missing or invalid manifest prints a warning and returns (lines 34-42).
CreateDefaultTemplates(td, mf) ==
    IF mf.kind # "object" THEN [exists |-> TRUE, files |-> td.files, wrote |-> <<>>]
    ELSE LET w == WriteMissing(td.files, mf.items, <<>>)
         IN  [exists |-> TRUE, files |-> w.files, wrote |-> w.wrote]

\* get_templates, lines 56-60: every file of the directory, keyed by file name
LoadTemplates(files) == files

HasTemplate(tpls, name) == \E i \in DOMAIN tpls : tpls[i].name = name

TemplateOf(tpls, name) == tpls[CHOOSE i \in DOMAIN tpls : tpls[i].name = name].content

(***************************************************************************)
(* Sampler                                                                 *)
(***************************************************************************)
\* random.shuffle(pictures): any permutation of the list
Shuffles(pictures) ==
    LET n == Len(pictures)
        perms == {p \in [1..n -> 1..n] : \A i, j \in 1..n : p[i] = p[j] => i = j}
    IN  {[i \in 1..n |-> pictures[p[i]]] : p \in perms}

RECURSIVE ShuffleAll(_)
\* the categories dict after line 70 ran for every category
ShuffleAll(cats) ==
    IF cats = <<>> THEN {<<>>}
    ELSE {<<[name |-> cats[1].name, pictures |-> p]>> \o rest :
              p \in Shuffles(cats[1].pictures), rest \in ShuffleAll(Tail(cats))}

\* A mutant of Sample that keeps one entry too many
SampleOffByOne(pictures, choose) == SliceTo(pictures, choose + 1)

\* line 71: pictures[:choose]
Sample(pictures, choose) == SliceTo(pictures, choose)

\* generate_shuffled's results for the shuffled categories
GenerateShuffled(choose, cats) ==
    [i \in DOMAIN cats |->
        [name |-> cats[i].name, pictures |-> Sample(cats[i].pictures, choose)]]

(***************************************************************************)
(* Configuration keys                                                      *)
(***************************************************************************)
Kchoose == <<"c", "h", "o", "o", "s", "e">>

Kexclude == <<"e", "x", "c", "l", "u", "d", "e">>

Kspacing == <<"s", "p", "a", "c", "i", "n", "g">>

Kbrowse == <<"b", "r", "o", "w", "s", "e">>

Kdry == <<"d", "r", "y">>

Kdate == <<"d", "a", "t", "e">>

Kcategory == <<"c", "a", "t", "e", "g", "o", "r", "y">>

Krandom == <<"r", "a", "n", "d", "o", "m">>

KrandomStem == <<"r", "a", "n", "d", "o", "m", "_", "s", "t", "e", "m">>

Kfilepath == <<"f", "i", "l", "e", "p", "a", "t", "h">>

Kfilename == <<"f", "i", "l", "e", "n", "a", "m", "e">>

\* A dict with one entry
Dict1(k, v) == [x \in {k} |-> v]

\* "True".casefold()
TrueFolded == Casefold(<<"T", "r", "u", "e">>)

(***************************************************************************)
(* Built-in handler handle_body (body.category.md)                         *)
(***************************************************************************)
\* A mutant of BrowseOn that compares the configured value without folding its case
BrowseOnExact(cfg) == cfg[Kbrowse] = <<"T", "r", "u", "e">>

\* line 104
BrowseOn(cfg) == Casefold(cfg[Kbrowse]) = TrueFolded

HeadingText(category, spacing) == <<"#", "#", " ">> \o category \o spacing

BrowseText(category, spacing) ==
    <<"[", "B", "r", "o", "w", "s", "e", "]", "(", ".", ".", "/">> \o category
        \o <<"/">> \o README \o <<")">> \o spacing

\* The exception, if any, that the first failing str.format of a list of calls raised
FirstFailure(rs) ==
    LET bad == {i \in DOMAIN rs : rs[i].status # "ok"}
    IN  IF bad = {} THEN "ok" ELSE rs[CHOOSE i \in bad : \A j \in bad : i <= j].status

RECURSIVE BodyResults(_, _, _, _)
\* lines 97-105: the results list, each piece tagged with the statement that appended it
BodyResults(string, cfg, shuf, spacing) ==
    IF shuf = <<>> THEN [status |-> "ok", pieces |-> <<>>]
    ELSE LET category == shuf[1].name
             pictures == shuf[1].pictures
             merged == Merge(Dict1(Kcategory, category), cfg)
             rs == [i \in DOMAIN pictures |->
                       Format(string, Merge(merged,
                           [k \in {Krandom, KrandomStem} |->
                               IF k = Krandom THEN pictures[i] ELSE Stem(pictures[i])]))]
             heading == [kind |-> "heading", category |-> category, picture |-> <<>>,
                         text |-> HeadingText(category, spacing)]
             entries == [i \in DOMAIN pictures |->
                            [kind |-> "picture", category |-> category,
                             picture |-> pictures[i], text |-> rs[i].text]]
             browse == IF BrowseOn(cfg)
                       THEN <<[kind |-> "browse", category |-> category, picture |-> <<>>,
                               text |-> BrowseText(category, spacing)]>>
                       ELSE <<>>
         IN  IF FirstFailure(rs) # "ok" THEN [status |-> FirstFailure(rs), pieces |-> <<>>]
             ELSE LET rest == BodyResults(string, cfg, Tail(shuf), spacing)
                  IN  IF rest.status # "ok" THEN rest
                      ELSE [status |-> "ok",
                            pieces |-> <<heading>> \o entries \o browse \o rest.pieces]

\* handle_body after line 94, given generate_shuffled's result; int() of a malformed
\* spacing raises ValueError (line 96)
HandleBody(string, cfg, shuf) ==
    IF ~ParseInt(cfg[Kspacing]).ok THEN [status |-> "ValueError", pieces |-> <<>>, text |-> <<>>]
    ELSE LET spacing == Repeat(NL, ParseInt(cfg[Kspacing]).val)
             r == BodyResults(string, cfg, shuf, spacing)
         IN  [status |-> r.status, pieces |-> r.pieces,
              text |-> Join(spacing, [i \in DOMAIN r.pieces |-> r.pieces[i].text])]

(***************************************************************************)
(* Built-in handler handle_category (category.md)                          *)
(***************************************************************************)
\* line 113: the default header "# {category}\n\n"
DefaultHeader == <<"#", " ", "{">> \o Kcategory \o <<"}", NL, NL>>

HeaderTemplate(tpls) ==
    IF HasTemplate(tpls, "category.header.md") THEN TemplateOf(tpls, "category.header.md")
    ELSE DefaultHeader

\* A mutant of CategoryScan that skips the categories without pictures
CategoryScanNonEmpty(t, cfg) ==
    SelectSeq(CategoricalWallpapers(t, ListArg(<<>>)), LAMBDA c : c.pictures # <<>>)

\* A mutant of CategoryScan that filters by the configured exclude list, as handle_body does
CategoryScanExcluding(t, cfg) == CategoricalWallpapers(t, StrArg(cfg[Kexclude]))

\* line 115: categorical_wallpapers() with its default exclude=[]
CategoryScan(t, cfg) == CategoricalWallpapers(t, ListArg(<<>>))

ReadmePath(category) == category \o <<"/">> \o README

RECURSIVE Concat(_)
Concat(parts) == IF parts = <<>> THEN <<>> ELSE parts[1] \o Concat(Tail(parts))

RECURSIVE CategoryResults(_, _, _, _, _)
\* lines 115-122: one [path, text] entry per scanned category, in scan order, each
\* tagged with the category and the pictures it was built from
CategoryResults(string, cfg, header, cats, spacing) ==
    IF cats = <<>> THEN [status |-> "ok", docs |-> <<>>]
    ELSE LET category == cats[1].name
             pictures == cats[1].pictures
             h == Format(header, Merge(cfg, Dict1(Kcategory, category)))
             rs == [i \in DOMAIN pictures |->
                       Format(string, Merge(cfg,
                           [k \in {Kfilepath, Kfilename, Kcategory} |->
                               IF k = Kfilepath THEN pictures[i]
                               ELSE IF k = Kfilename THEN Stem(pictures[i])
                               ELSE category]))]
         IN  IF h.status # "ok" THEN [status |-> h.status, docs |-> <<>>]
             ELSE IF FirstFailure(rs) # "ok" THEN [status |-> FirstFailure(rs), docs |-> <<>>]
             ELSE LET rest == CategoryResults(string, cfg, header, Tail(cats), spacing)
                      text == h.text \o Concat([i \in DOMAIN rs |-> rs[i].text \o spacing])
                  IN  IF rest.status # "ok" THEN rest
                      ELSE [status |-> "ok",
                            docs |-> <<[path |-> ReadmePath(category), text |-> text,
                                        category |-> category, pictures |-> pictures]>>
                                        \o rest.docs]

\* handle_category, given the templates its get_templates() call returned
HandleCategory(string, cfg, t, tpls) ==
    IF ~ParseInt(cfg[Kspacing]).ok THEN [status |-> "ValueError", docs |-> <<>>]
    ELSE CategoryResults(string, cfg, HeaderTemplate(tpls), CategoryScan(t, cfg),
                         Repeat(NL, ParseInt(cfg[Kspacing]).val))

(***************************************************************************)
(* Template Priming Engine: prime_templates                                *)
(***************************************************************************)
\* line 130: the handlers the entry point registers
Handlers == {"body.category.md", "category.md"}

\* d[k] = v on a dict
Put(d, k, v) == [x \in DOMAIN d \cup {k} |-> IF x = k THEN v ELSE d[x]]

\* A mutant of Substitute that loses the template's first character
SubstituteFromSecond(string, cfg) == FormatFrom(string, 2, cfg, <<>>)

\* line 86: string.format(**config)
Substitute(string, cfg) == Format(string, cfg)

\* lines 85-89 for a template without a handler: substitution, the fallback to the raw
\* text on KeyError, and any other exception of str.format, which nothing catches
PrimeGeneric ==
    /\ pc = "prime"
    /\ idx <= Len(templates)
    /\ templates[idx].name \notin Handlers
    /\ LET t == templates[idx]
           r == Substitute(t.content, config)
       IN  \/ /\ r.status = "ok"
              /\ result' = Put(result, t.name, r.text)
              /\ idx' = idx + 1
              /\ UNCHANGED <<warnings, pc, exc>>
           \/ /\ r.status = "KeyError"
              /\ warnings' = Append(warnings, [template |-> t.name, var |-> r.key])
              /\ result' = Put(result, t.name, t.content)
              /\ idx' = idx + 1
              /\ UNCHANGED <<pc, exc>>
           \/ /\ r.status \notin {"ok", "KeyError"}
              /\ pc' = "crashed"
              /\ exc' = r.status
              /\ UNCHANGED <<result, idx, warnings>>
    /\ UNCHANGED <<tree, tdir, manifest, config, templates, stdout, written, bootLog,
                   categories, shuffled, original, bodyOut, catOut, treeAtBody, treeAtCat,
                   run, firstPartial, tree0>>

(***************************************************************************)
(* Priming of templates without a handler, over bounded template texts     *)
(***************************************************************************)
MaxTemplateLen == 3

TemplateChars == {"{", "}", "k", "0", "t"}

TemplateTexts(n) == UNION {[1..m -> TemplateChars] : m \in 0..n}

\* batches of one or two templates; in a batch of two, one text is short
PrimeBatches ==
    LET one(c) == <<[name |-> "t1.md", content |-> c]>>
        two(c, d) == <<[name |-> "t1.md", content |-> c], [name |-> "t2.md", content |-> d]>>
    IN  {one(c) : c \in TemplateTexts(MaxTemplateLen)}
        \cup {two(c, d) : c \in TemplateTexts(MaxTemplateLen), d \in TemplateTexts(1)}
        \cup {two(d, c) : c \in TemplateTexts(MaxTemplateLen), d \in TemplateTexts(1)}

\* configurations with and without the key "k"; a value may itself hold a brace
PrimeConfigs == {<<>>, Dict1(<<"k">>, <<"v">>), Dict1(<<"k">>, <<"{">>)}

NoTree == <<>>

NoTemplateDir == [exists |-> TRUE, files |-> <<>>]

NoManifest == [kind |-> "absent", items |-> <<>>]

InitPrime ==
    /\ templates \in PrimeBatches
    /\ config \in PrimeConfigs
    /\ idx = 1
    /\ result = <<>>
    /\ warnings = <<>>
    /\ pc = "prime"
    /\ exc = "none"
    /\ tree = NoTree
    /\ tdir = NoTemplateDir
    /\ manifest = NoManifest
    /\ stdout = <<>>
    /\ written = <<>>
    /\ bootLog = <<>>
    /\ categories = <<>>
    /\ shuffled = <<>>
    /\ original = <<>>
    /\ bodyOut = <<>>
    /\ catOut = <<>>
    /\ treeAtBody = NoTree
    /\ treeAtCat = NoTree
    /\ run = 1
    /\ firstPartial = <<>>
    /\ tree0 = NoTree

NextPrime == PrimeGeneric

SpecPrime == InitPrime /\ [][NextPrime]_vars

\* prime_templates returned its result
PrimeReturned == pc = "prime" /\ idx > Len(templates)

HasBrace(s) == \E i \in DOMAIN s : s[i] \in {"{", "}"}

\* a text with no replacement field: every brace in it is part of a "{{" or "}}" escape
RECURSIVE NoPlaceholder(_)
NoPlaceholder(s) ==
    IF s = <<>> THEN TRUE
    ELSE IF s[1] \notin {"{", "}"} THEN NoPlaceholder(Tail(s))
    ELSE Len(s) >= 2 /\ s[2] = s[1] /\ NoPlaceholder(Tail(Tail(s)))

WarningsFor(name) == SelectSeq(warnings, LAMBDA w : w.template = name)

\* C1: a template without a handler that references a variable absent from config is
\* stored raw with exactly one warning naming the variable, and generic substitution
\* never raises: prime_templates never ends in an exception, and once it returned the
\* result has an entry for every loaded template.
C1_GenericPrimingNeverRaises ==
    /\ pc # "crashed"
    /\ \A i \in DOMAIN templates :
          i < idx =>
             /\ templates[i].name \in DOMAIN result
             /\ Format(templates[i].content, config).status = "KeyError" =>
                   /\ result[templates[i].name] = templates[i].content
                   /\ WarningsFor(templates[i].name) =
                         <<[template |-> templates[i].name,
                            var |-> Format(templates[i].content, config).key]>>

MaxPictures == 3

PictureX == <<"x", ".", "p">>

PictureY == <<"y">>

CategoryA == <<"a">>

CategoryB == <<"b">>

\* picture lists, repeated entries included
PictureLists(n) == UNION {[1..m -> {PictureX, PictureY}] : m \in 0..n}

SampleInputs ==
    {<<[name |-> CategoryA, pictures |-> l]>> : l \in PictureLists(MaxPictures)}
    \cup {<<[name |-> CategoryA, pictures |-> l], [name |-> CategoryB, pictures |-> m]>> :
              l \in PictureLists(MaxPictures), m \in PictureLists(1)}

\* config["choose"] as the INI file gives it: a string
ChooseValues == {<<"0">>, <<"1">>, <<"2">>, <<"3">>, <<"4">>, <<"-", "1">>, <<"x">>}

\* generate_shuffled, lines 67-72: int() of a malformed choose raises ValueError
GenerateShuffledCall ==
    /\ pc = "sample"
    /\ LET choose == ParseInt(config[Kchoose])
       IN  \/ /\ ~choose.ok
              /\ pc' = "crashed"
              /\ exc' = "ValueError"
              /\ UNCHANGED <<categories, shuffled, original>>
           \/ /\ choose.ok
              /\ \E sh \in ShuffleAll(categories) :
                    /\ categories' = sh
                    /\ shuffled' = GenerateShuffled(choose.val, sh)
              /\ original' = categories
              /\ pc' = "sampled"
              /\ UNCHANGED exc
    /\ UNCHANGED <<tree, tdir, manifest, config, templates, idx, result, warnings, stdout,
                   written, bootLog, bodyOut, catOut, treeAtBody, treeAtCat, run,
                   firstPartial, tree0>>

InitSample ==
    /\ categories \in SampleInputs
    /\ config \in {Dict1(Kchoose, c) : c \in ChooseValues}
    /\ pc = "sample"
    /\ templates = <<>>
    /\ idx = 1
    /\ result = <<>>
    /\ warnings = <<>>
    /\ exc = "none"
    /\ tree = NoTree
    /\ tdir = NoTemplateDir
    /\ manifest = NoManifest
    /\ stdout = <<>>
    /\ written = <<>>
    /\ bootLog = <<>>
    /\ shuffled = <<>>
    /\ original = <<>>
    /\ bodyOut = <<>>
    /\ catOut = <<>>
    /\ treeAtBody = NoTree
    /\ treeAtCat = NoTree
    /\ run = 1
    /\ firstPartial = <<>>
    /\ tree0 = NoTree

NextSample == GenerateShuffledCall

SpecSample == InitSample /\ [][NextSample]_vars

Count(seq, x) == Cardinality({i \in DOMAIN seq : seq[i] = x})

\* C2: for every category with picture list L and every choose = k >= 0, the sample has
\* length min(k, |L|), holds no entry that is not in L and no entry more often than L
\* does; when k >= |L| the sample is the whole of L.
C2_SampleBounded ==
    (pc = "sampled" /\ ParseInt(config[Kchoose]).val >= 0) =>
        LET k == ParseInt(config[Kchoose]).val
        IN  /\ Len(shuffled) = Len(original)
            /\ \A i \in DOMAIN original :
                  LET L == original[i].pictures
                      S == shuffled[i].pictures
                  IN  /\ shuffled[i].name = original[i].name
                      /\ Len(S) = Min(k, Len(L))
                      /\ \A j \in DOMAIN S : Count(S, S[j]) <= Count(L, S[j])
                      /\ k >= Len(L) => \A j \in DOMAIN L : Count(S, L[j]) = Count(L, L[j])

\* a list with a repeated entry was sampled to fewer entries than it has, in another order
C2_Witness ==
    /\ pc = "sampled"
    /\ \E i \in DOMAIN original :
          /\ Len(shuffled[i].pictures) = 2
          /\ Len(original[i].pictures) = 3
          /\ Count(original[i].pictures, PictureX) = 2
          /\ shuffled[i].pictures # SubSeq(original[i].pictures, 1, 2)

(***************************************************************************)
(* The Template Store bootstrap on its own: create_default_templates twice *)
(***************************************************************************)
MaxFiles == 2

BootNames == {"heading.md", "sources.md", "category.md"}

\* the manifest value ["#T", ""] and the text it is written as
TitleLines == <<<<"#", "T">>, <<>>>>

TitleText == <<"#", "T", NL>>

\* sequences of distinct names
NameLists(names, n) ==
    {s \in UNION {[1..m -> names] : m \in 0..n} : \A i, j \in DOMAIN s : s[i] = s[j] => i = j}

BootDirs ==
    {[exists |-> FALSE, files |-> <<>>]}
    \cup {[exists |-> TRUE, files |-> [i \in DOMAIN s |-> [name |-> s[i], content |-> <<"o">>]]] :
              s \in NameLists(BootNames, MaxFiles)}

ManifestContents == {[list |-> FALSE, val |-> <<"n">>], [list |-> TRUE, val |-> TitleLines]}

BootManifests ==
    {[kind |-> "absent", items |-> <<>>], [kind |-> "invalid", items |-> <<>>]}
    \cup UNION {{[kind |-> "object",
                  items |-> [i \in DOMAIN s |-> [name |-> s[i], content |-> c[i]]]] :
                     c \in [DOMAIN s -> ManifestContents]} :
                s \in NameLists(BootNames, MaxFiles)}

\* one call of create_default_templates, lines 30-49
CreateDefaultTemplatesCall ==
    /\ pc = "boot"
    /\ Len(bootLog) < 2
    /\ LET r == CreateDefaultTemplates(tdir, manifest)
       IN  /\ tdir' = [exists |-> r.exists, files |-> r.files]
           /\ bootLog' = Append(bootLog, [before |-> tdir.files, wrote |-> r.wrote])
    /\ UNCHANGED <<tree, manifest, config, templates, idx, result, warnings, pc, exc, stdout,
                   written, categories, shuffled, original, bodyOut, catOut, treeAtBody,
                   treeAtCat, run, firstPartial, tree0>>

InitBoot ==
    /\ tdir \in BootDirs
    /\ manifest \in BootManifests
    /\ pc = "boot"
    /\ bootLog = <<>>
    /\ config = <<>>
    /\ templates = <<>>
    /\ idx = 1
    /\ result = <<>>
    /\ warnings = <<>>
    /\ exc = "none"
    /\ tree = NoTree
    /\ stdout = <<>>
    /\ written = <<>>
    /\ categories = <<>>
    /\ shuffled = <<>>
    /\ original = <<>>
    /\ bodyOut = <<>>
    /\ catOut = <<>>
    /\ treeAtBody = NoTree
    /\ treeAtCat = NoTree
    /\ run = 1
    /\ firstPartial = <<>>
    /\ tree0 = NoTree

NextBoot == CreateDefaultTemplatesCall

SpecBoot == InitBoot /\ [][NextBoot]_vars

FileNames(files) == {files[i].name : i \in DOMAIN files}

\* C6: one run of create_default_templates writes exactly the manifest entries whose
\* file does not exist yet (a list value as its lines joined with newline), leaves
\* every existing file unchanged, and a second run right after it modifies no file.
C6_BootstrapIdempotent ==
    /\ \A n \in DOMAIN bootLog :
          LET before == bootLog[n].before
              after == IF n < Len(bootLog) THEN bootLog[n + 1].before ELSE tdir.files
              wrote == Range(bootLog[n].wrote)
              items == IF manifest.kind = "object" THEN manifest.items ELSE <<>>
          IN  /\ wrote = {items[i].name : i \in DOMAIN items} \ FileNames(before)
              /\ Len(bootLog[n].wrote) = Cardinality(wrote)
              /\ \A f \in Range(before) : f \in Range(after)
              /\ FileNames(after) = FileNames(before) \cup wrote
              /\ Len(after) = Cardinality(FileNames(after))
              /\ \A i \in DOMAIN items : \A f \in Range(after) :
                    (f.name = items[i].name /\ f.name \in wrote) =>
                        f.content = IF items[i].content.list
                                    THEN (IF items[i].content.val = TitleLines
                                          THEN TitleText ELSE <<"?">>)
                                    ELSE items[i].content.val
    /\ Len(bootLog) = 2 => (bootLog[2].wrote = <<>> /\ tdir.files = bootLog[2].before)

\* the first run wrote a list-valued entry and left an existing file of the manifest
\* alone; the second run has been made
C6_Witness ==
    /\ Len(bootLog) = 2
    /\ manifest.kind = "object"
    /\ \E i, j \in DOMAIN manifest.items :
          /\ manifest.items[i].content.list
          /\ manifest.items[i].name \in Range(bootLog[1].wrote)
          /\ manifest.items[j].name \in FileNames(bootLog[1].before)

(***************************************************************************)
(* prime_templates for the two templates that have a handler               *)
(***************************************************************************)
BodyDone == "body.category.md" \in DOMAIN result

CategoryDone == "category.md" \in DOMAIN result

\* lines 82-83 for body.category.md: handle_body scans, samples and renders; whatever
\* it raises ends the process
PrimeBody ==
    /\ pc = "prime"
    /\ idx <= Len(templates)
    /\ templates[idx].name = "body.category.md"
    /\ templates[idx].name \in Handlers
    /\ LET scan == CategoricalWallpapers(tree, StrArg(config[Kexclude]))
           choose == ParseInt(config[Kchoose])
       IN  \/ /\ ~choose.ok
              /\ pc' = "crashed"
              /\ exc' = "ValueError"
              /\ UNCHANGED <<categories, shuffled, original, bodyOut, treeAtBody, result, idx>>
           \/ /\ choose.ok
              /\ \E sh \in ShuffleAll(scan) :
                    LET r == HandleBody(templates[idx].content, config,
                                        GenerateShuffled(choose.val, sh))
                    IN  /\ categories' = sh
                        /\ shuffled' = GenerateShuffled(choose.val, sh)
                        /\ original' = scan
                        /\ treeAtBody' = tree
                        /\ IF r.status = "ok"
                           THEN /\ result' = Put(result, templates[idx].name, r.text)
                                /\ bodyOut' = r.pieces
                                /\ idx' = idx + 1
                                /\ UNCHANGED <<pc, exc>>
                           ELSE /\ pc' = "crashed"
                                /\ exc' = r.status
                                /\ UNCHANGED <<result, bodyOut, idx>>
    /\ UNCHANGED <<tree, tdir, manifest, config, templates, warnings, stdout, written,
                   bootLog, catOut, treeAtCat, run, firstPartial, tree0>>

\* the [path, text] entries of handle_category's result dict
Docs(out) == [i \in DOMAIN out |-> [path |-> out[i].path, text |-> out[i].text]]

\* lines 82-83 for category.md: handle_category parses the spacing, reloads the
\* templates (bootstrapping them again), scans unfiltered and renders
PrimeCategory ==
    /\ pc = "prime"
    /\ idx <= Len(templates)
    /\ templates[idx].name = "category.md"
    /\ templates[idx].name \in Handlers
    /\ IF ~ParseInt(config[Kspacing]).ok
       THEN /\ pc' = "crashed"
            /\ exc' = "ValueError"
            /\ UNCHANGED <<tdir, bootLog, result, catOut, treeAtCat, idx>>
       ELSE LET boot == CreateDefaultTemplates(tdir, manifest)
                r == HandleCategory(templates[idx].content, config, tree,
                                    LoadTemplates(boot.files))
            IN  /\ tdir' = [exists |-> boot.exists, files |-> boot.files]
                /\ bootLog' = Append(bootLog, [before |-> tdir.files, wrote |-> boot.wrote])
                /\ treeAtCat' = tree
                /\ IF r.status = "ok"
                   THEN /\ result' = Put(result, templates[idx].name, Docs(r.docs))
                        /\ catOut' = r.docs
                        /\ idx' = idx + 1
                        /\ UNCHANGED <<pc, exc>>
                   ELSE /\ pc' = "crashed"
                        /\ exc' = r.status
                        /\ UNCHANGED <<result, catOut, idx>>
    /\ UNCHANGED <<tree, manifest, config, templates, warnings, stdout, written, categories,
                   shuffled, original, bodyOut, treeAtBody, run, firstPartial, tree0>>

(***************************************************************************)
(* Directory trees                                                         *)
(***************************************************************************)
MaxEntries == 2

Dir(name, entries) == [name |-> name, isfile |-> FALSE, entries |-> entries]

File(name) == [name |-> name, isfile |-> TRUE, entries |-> <<>>]

\* the hidden directory that holds the generator, its config and its templates
GithubDir == Dir(<<".", "g">>, <<<<"d">>>>)

\* listings of a category directory: distinct names, its own README.md possibly among them
Listings(n) == NameLists({PictureX, PictureY, README}, n)

\* no category, one, or two (the second one smaller), then the hidden directory
Trees(n) ==
    {<<GithubDir>>}
    \cup {<<Dir(CategoryA, l), GithubDir>> : l \in Listings(n)}
    \cup {<<Dir(CategoryA, l), Dir(CategoryB, m), GithubDir>> :
              l \in Listings(n), m \in Listings(n - 1)}

NewPicture == <<"z">>

RemoveAt(seq, i) == SubSeq(seq, 1, i - 1) \o SubSeq(seq, i + 1, Len(seq))

\* what another process may do to the tree: remove a category, remove one of its
\* entries, or add a picture to it
TreeEdits(t) ==
    LET cats == {i \in DOMAIN t : ~t[i].isfile /\ t[i].name[1] # "."}
    IN  {RemoveAt(t, i) : i \in cats}
        \cup {[t EXCEPT ![i].entries = RemoveAt(@, j)] :
                  <<i, j>> \in {<<i, j>> \in cats \X (1..MaxEntries) : j <= Len(t[i].entries)}}
        \cup {[t EXCEPT ![i].entries = Append(@, NewPicture)] : i \in cats}

\* Another process modifies the tree between the two handlers' scans
ModifyTree ==
    /\ pc = "prime"
    /\ BodyDone # CategoryDone
    /\ tree = IF BodyDone THEN treeAtBody ELSE treeAtCat
    /\ tree' \in TreeEdits(tree)
    /\ UNCHANGED <<tdir, manifest, config, templates, idx, result, warnings, pc, exc, stdout,
                   written, bootLog, categories, shuffled, original, bodyOut, catOut,
                   treeAtBody, treeAtCat, run, firstPartial, tree0>>

(***************************************************************************)
(* The two handlers within one prime_templates call, over bounded trees    *)
(***************************************************************************)
\* body.category.md: "{random_stem}={random}"
BodyString == <<"{">> \o KrandomStem \o <<"}", "=", "{">> \o Krandom \o <<"}">>

\* category.md: "{filename}={filepath}@{category}"
CategoryString ==
    <<"{">> \o Kfilename \o <<"}", "=", "{">> \o Kfilepath \o <<"}", "@", "{">>
        \o Kcategory \o <<"}">>

\* category.header.md: "<{category}>"
HeaderString == <<"<", "{">> \o Kcategory \o <<"}", ">">>

BodyTemplate == [name |-> "body.category.md", content |-> BodyString]

CategoryTemplate == [name |-> "category.md", content |-> CategoryString]

HeaderFile == [name |-> "category.header.md", content |-> HeaderString]

HandlerDirs ==
    {<<BodyTemplate, CategoryTemplate>>, <<CategoryTemplate, BodyTemplate>>,
     <<CategoryTemplate, HeaderFile, BodyTemplate>>}

Cfg(choose, exclude, spacing, browse, dry) ==
    [k \in {Kchoose, Kexclude, Kspacing, Kbrowse, Kdry, Kdate} |->
        CASE k = Kchoose -> choose
          [] k = Kexclude -> exclude
          [] k = Kspacing -> spacing
          [] k = Kbrowse -> browse
          [] k = Kdry -> dry
          [] OTHER -> <<"2", "6">>]

ExcludeValues == {<<>>, <<"a">>, <<"b", ":", "a">>}

BrowseValues == {<<"T", "r", "u", "e">>, <<"t", "R", "U", "E">>, <<"F", "a", "l", "s", "e">>}

HandlerConfigs ==
    {Cfg(c, e, <<"1">>, b, <<"T", "r", "u", "e">>) :
        c \in {<<"0">>, <<"1">>, <<"2">>}, e \in ExcludeValues, b \in BrowseValues}

InitHandlers ==
    /\ tree \in Trees(MaxEntries)
    /\ config \in HandlerConfigs
    /\ \E files \in HandlerDirs :
          /\ tdir = [exists |-> TRUE, files |-> files]
          /\ templates = LoadTemplates(files)
    /\ manifest = NoManifest
    /\ pc = "prime"
    /\ idx = 1
    /\ result = <<>>
    /\ warnings = <<>>
    /\ exc = "none"
    /\ stdout = <<>>
    /\ written = <<>>
    /\ bootLog = <<>>
    /\ categories = <<>>
    /\ shuffled = <<>>
    /\ original = <<>>
    /\ bodyOut = <<>>
    /\ catOut = <<>>
    /\ treeAtBody = NoTree
    /\ treeAtCat = NoTree
    /\ run = 1
    /\ firstPartial = <<>>
    /\ tree0 = tree

NextHandlers == PrimeGeneric \/ PrimeBody \/ PrimeCategory \/ ModifyTree

SpecHandlers == InitHandlers /\ [][NextHandlers]_vars

\* "true" in any letter case, spelled out
SpellsTrue(s) ==
    /\ Len(s) = 4
    /\ s[1] \in {"t", "T"}
    /\ s[2] \in {"r", "R"}
    /\ s[3] \in {"u", "U"}
    /\ s[4] \in {"e", "E"}

\* the directories of a tree that are not hidden
VisibleDirs(t) == SelectSeq(t, LAMBDA e : ~e.isfile /\ e.name[1] # ".")

\* the entries of a listing other than README.md, in listing order
PicturesOf(entry) == SelectSeq(entry.entries, LAMBDA p : p # README)

PiecesOf(c) == SelectSeq(bodyOut, LAMBDA p : p.category = c)

\* C3: the body has exactly one "## <category>" heading for each scanned category that
\* is not excluded and none for an excluded one, also when the sample is empty; each
\* heading is followed by exactly min(k, |category|) rendered pictures of that
\* category, and by a "[Browse](../<category>/README.md)" line if and only if browse
\* equals "true" case-insensitively.
C3_BodyStructure ==
    (BodyDone /\ ParseInt(config[Kchoose]).val >= 0) =>
        LET k == ParseInt(config[Kchoose]).val
            spacing == Repeat(NL, ParseInt(config[Kspacing]).val)
            excluded == Range(Split(config[Kexclude], ":"))
            expected == SelectSeq(VisibleDirs(treeAtBody), LAMBDA e : e.name \notin excluded)
            headings == SelectSeq(bodyOut, LAMBDA p : p.kind = "heading")
        IN  /\ [i \in DOMAIN headings |-> headings[i].category]
                  = [i \in DOMAIN expected |-> expected[i].name]
            /\ bodyOut = Concat([i \in DOMAIN expected |-> PiecesOf(expected[i].name)])
            /\ result["body.category.md"]
                  = Join(spacing, [i \in DOMAIN bodyOut |-> bodyOut[i].text])
            /\ \A i \in DOMAIN expected :
                  LET c == expected[i].name
                      seg == PiecesOf(c)
                      pics == Range(PicturesOf(expected[i]))
                      n == Min(k, Cardinality(pics))
                  IN  /\ Len(seg) = 1 + n + (IF SpellsTrue(config[Kbrowse]) THEN 1 ELSE 0)
                      /\ seg[1].kind = "heading"
                      /\ seg[1].text = <<"#", "#", " ">> \o c \o spacing
                      /\ \A j \in 2..(n + 1) :
                            /\ seg[j].kind = "picture"
                            /\ seg[j].picture \in pics
                            /\ \A j2 \in 2..(n + 1) :
                                  seg[j2].picture = seg[j].picture => j2 = j
                      /\ SpellsTrue(config[Kbrowse]) =>
                            /\ seg[Len(seg)].kind = "browse"
                            /\ seg[Len(seg)].text =
                                  <<"[", "B", "r", "o", "w", "s", "e", "]", "(", ".", ".", "/">>
                                      \o c \o <<"/">> \o README \o <<")">> \o spacing

\* handle_body returned for a tree with a two-picture category sampled down to one and
\* a category without pictures, neither excluded, with browse spelled "tRUE"
C3_Witness ==
    /\ BodyDone
    /\ config[Kchoose] = <<"1">>
    /\ config[Kexclude] = <<>>
    /\ config[Kbrowse] = <<"t", "R", "U", "E">>
    /\ Len(VisibleDirs(treeAtBody)) = 2
    /\ Len(PicturesOf(VisibleDirs(treeAtBody)[1])) = 2
    /\ Len(PicturesOf(VisibleDirs(treeAtBody)[2])) = 0
    /\ Len(bodyOut) = 5

\* C4: whatever exclude and choose are, handle_category's mapping has exactly one key
\* "<category>/README.md" for every category of the unfiltered scan (excluded and
\* empty categories included) and no other key; each value is the header substituted
\* with that category's name, followed by one rendered entry plus spacing for every
\* picture of the entire list, in scan order, none omitted or repeated.
C4_CategoryDocs ==
    CategoryDone =>
        LET expected == VisibleDirs(treeAtCat)
            spacing == Repeat(NL, ParseInt(config[Kspacing]).val)
            docs == result["category.md"]
            Header(c) == IF HasFile(tdir.files, "category.header.md")
                         THEN <<"<">> \o c \o <<">">>
                         ELSE <<"#", " ">> \o c \o <<NL, NL>>
            Entry(c, p) == Stem(p) \o <<"=">> \o p \o <<"@">> \o c \o spacing
        IN  /\ Len(docs) = Len(expected)
            /\ \A i \in DOMAIN expected :
                  LET c == expected[i].name
                      pics == PicturesOf(expected[i])
                  IN  /\ docs[i].path = c \o <<"/">> \o README
                      /\ docs[i].text
                            = Header(c) \o Concat([j \in DOMAIN pics |-> Entry(c, pics[j])])

\* handle_category returned for a tree whose first category is excluded by the config
\* and lists two pictures besides its README.md, and whose second category is empty
C4_Witness ==
    /\ CategoryDone
    /\ config[Kexclude] = <<"a">>
    /\ Len(VisibleDirs(treeAtCat)) = 2
    /\ VisibleDirs(treeAtCat)[1].name = CategoryA
    /\ Len(PicturesOf(VisibleDirs(treeAtCat)[1])) = 2
    /\ VisibleDirs(treeAtCat)[2].entries = <<>>
    /\ Len(result["category.md"]) = 2

\* C9: if the tree is not modified between handle_body's scan and handle_category's,
\* every category with a heading in the body has a key "<category>/README.md" in the
\* partial mapping, and every picture sampled into the body under a category is one
\* of the pictures listed in that category's document.
C9_BodyWithinDocs ==
    (BodyDone /\ CategoryDone /\ treeAtBody = treeAtCat) =>
        \A i \in DOMAIN bodyOut :
            /\ bodyOut[i].kind = "heading" =>
                  \E j \in DOMAIN result["category.md"] :
                      result["category.md"][j].path = ReadmePath(bodyOut[i].category)
            /\ bodyOut[i].kind = "picture" =>
                  \E j \in DOMAIN catOut :
                      /\ catOut[j].category = bodyOut[i].category
                      /\ bodyOut[i].picture \in Range(catOut[j].pictures)

\* both handlers ran on the same tree and the body holds a sampled picture and the
\* heading of a category without pictures
C9_Witness ==
    /\ BodyDone
    /\ CategoryDone
    /\ treeAtBody = treeAtCat
    /\ \E i \in DOMAIN bodyOut : bodyOut[i].kind = "picture"
    /\ \E i \in DOMAIN bodyOut :
          /\ bodyOut[i].kind = "heading"
          /\ \A j \in DOMAIN bodyOut : bodyOut[j].kind = "picture" =>
                bodyOut[j].category # bodyOut[i].category

\* The same statement without its precondition: it fails once another process
\* modifies the tree between the two scans.
C9_WithoutPrecondition ==
    (BodyDone /\ CategoryDone) =>
        \A i \in DOMAIN bodyOut :
            bodyOut[i].kind = "picture" =>
                \E j \in DOMAIN catOut :
                    /\ catOut[j].category = bodyOut[i].category
                    /\ bodyOut[i].picture \in Range(catOut[j].pictures)

(***************************************************************************)
(* Entry orchestration (the __main__ block) and the Sink                   *)
(***************************************************************************)
\* line 131, with the ".md" of line 132 appended
FullTemplates == <<"heading.md", "body.heading.md", "body.category.md", "sources.md">>

\* A mutant of LookupFails that forgets the lookup of category.md
LookupFailsFullOnly(res) == \E i \in DOMAIN FullTemplates : FullTemplates[i] \notin DOMAIN res

\* lines 132-133: primed[...] raises KeyError for a name that is not in the result
LookupFails(res) ==
    \/ \E i \in DOMAIN FullTemplates : FullTemplates[i] \notin DOMAIN res
    \/ "category.md" \notin DOMAIN res

\* line 132
Full(res) == [i \in DOMAIN FullTemplates |-> res[FullTemplates[i]]]

\* line 133
Partial(res) == res["category.md"]

\* A mutant of DryRun that compares the configured value without folding its case
DryRunExact(cfg) == cfg[Kdry] = <<"T", "r", "u", "e">>

\* line 135
DryRun(cfg) == Casefold(cfg[Kdry]) = TrueFolded

\* a directory listing after a file of that name was written: an existing file keeps
\* its place, a new one shows up at either end of the listing
WithEntry(entries, e, present) ==
    IF present THEN {entries}
    ELSE {<<e>> \o entries, Append(entries, e)}

\* line 78: the default value of prime_templates' templates parameter is computed by
\* get_templates() when the function is defined, bootstrap included
DefineModule ==
    /\ pc = "import"
    /\ LET boot == CreateDefaultTemplates(tdir, manifest)
       IN  /\ tdir' = [exists |-> boot.exists, files |-> boot.files]
           /\ bootLog' = Append(bootLog, [before |-> tdir.files, wrote |-> boot.wrote])
           /\ templates' = LoadTemplates(boot.files)
    /\ idx' = 1
    /\ pc' = "prime"
    /\ UNCHANGED <<tree, manifest, config, result, warnings, exc, stdout, written,
                   categories, shuffled, original, bodyOut, catOut, treeAtBody, treeAtCat,
                   run, firstPartial, tree0>>

\* lines 131-133, after prime_templates returned
Compose ==
    /\ pc = "prime"
    /\ idx > Len(templates)
    /\ IF LookupFails(result)
       THEN pc' = "crashed" /\ exc' = "KeyError"
       ELSE pc' = "sink" /\ UNCHANGED exc
    /\ UNCHANGED <<tree, tdir, manifest, config, templates, idx, result, warnings, stdout,
                   written, bootLog, categories, shuffled, original, bodyOut, catOut,
                   treeAtBody, treeAtCat, run, firstPartial, tree0>>

\* lines 135-136: the dry run prints one JSON object
SinkDry ==
    /\ pc = "sink"
    /\ DryRun(config)
    /\ stdout' = Append(stdout, [full |-> Full(result), partial |-> Partial(result)])
    /\ pc' = "done"
    /\ UNCHANGED <<tree, tdir, manifest, config, templates, idx, result, warnings, exc,
                   written, bootLog, categories, shuffled, original, bodyOut, catOut,
                   treeAtBody, treeAtCat, run, firstPartial, tree0>>

\* line 138: the root README.md
SinkWriteRoot ==
    /\ pc = "sink"
    /\ ~DryRun(config)
    /\ IF ~ParseInt(config[Kspacing]).ok
       THEN /\ pc' = "crashed"
            /\ exc' = "ValueError"
            /\ UNCHANGED <<tree, written>>
       ELSE /\ tree' \in WithEntry(tree, File(README),
                                     \E i \in DOMAIN tree : tree[i].name = README)
            /\ written' = Append(written,
                   [path |-> README,
                    text |-> Join(Repeat(NL, ParseInt(config[Kspacing]).val), Full(result))])
            /\ pc' = IF Partial(result) = <<>> THEN "done" ELSE "partial"
            /\ UNCHANGED exc
    /\ UNCHANGED <<tdir, manifest, config, templates, idx, result, warnings, stdout,
                   bootLog, categories, shuffled, original, bodyOut, catOut, treeAtBody,
                   treeAtCat, run, firstPartial, tree0>>

\* lines 139-140, one iteration: the next <category>/README.md; write_text raises
\* FileNotFoundError if the category directory is gone
SinkWritePartial ==
    /\ pc = "partial"
    /\ LET doc == Partial(result)[Len(written)]
           dirs == {i \in DOMAIN tree :
                       ~tree[i].isfile /\ ReadmePath(tree[i].name) = doc.path}
       IN  IF dirs = {}
           THEN /\ pc' = "crashed"
                /\ exc' = "FileNotFoundError"
                /\ UNCHANGED <<tree, written>>
           ELSE /\ \E i \in dirs : \E l \in WithEntry(tree[i].entries, README,
                                                     README \in Range(tree[i].entries)) :
                      tree' = [tree EXCEPT ![i].entries = l]
                /\ written' = Append(written, doc)
                /\ pc' = IF Len(written) = Len(Partial(result)) THEN "done" ELSE "partial"
                /\ UNCHANGED exc
    /\ UNCHANGED <<tdir, manifest, config, templates, idx, result, warnings, stdout,
                   bootLog, categories, shuffled, original, bodyOut, catOut, treeAtBody,
                   treeAtCat, run, firstPartial, tree0>>

MaxRuns == 2

\* The generator is started again after a normal run, on the tree that run left
Rerun ==
    /\ pc = "done"
    /\ ~DryRun(config)
    /\ run < MaxRuns
    /\ run' = run + 1
    /\ firstPartial' = IF run = 1 THEN Partial(result) ELSE firstPartial
    /\ pc' = "import"
    /\ templates' = <<>>
    /\ idx' = 1
    /\ result' = <<>>
    /\ warnings' = <<>>
    /\ stdout' = <<>>
    /\ written' = <<>>
    /\ bootLog' = <<>>
    /\ categories' = <<>>
    /\ shuffled' = <<>>
    /\ original' = <<>>
    /\ bodyOut' = <<>>
    /\ catOut' = <<>>
    /\ treeAtBody' = NoTree
    /\ treeAtCat' = NoTree
    /\ UNCHANGED <<tree, tdir, manifest, config, exc, tree0>>

(***************************************************************************)
(* Whole runs over bounded trees, configurations and template stores       *)
(***************************************************************************)
\* the five templates of a templates.json, heading.md given as a list of lines
DefaultItems ==
    <<[name |-> "heading.md", content |-> [list |-> TRUE, val |-> TitleLines]],
      [name |-> "body.heading.md", content |-> [list |-> FALSE, val |-> <<"B">>]],
      [name |-> "body.category.md", content |-> [list |-> FALSE, val |-> BodyString]],
      [name |-> "sources.md",
       content |-> [list |-> FALSE, val |-> <<"{">> \o Kdate \o <<"}">>]],
      [name |-> "category.md", content |-> [list |-> FALSE, val |-> CategoryString]]>>

DefaultFiles ==
    [i \in DOMAIN DefaultItems |->
        [name |-> DefaultItems[i].name, content |-> ManifestText(DefaultItems[i].content)]]

FullManifest == [kind |-> "object", items |-> DefaultItems]

\* template directories and manifests: a first run that bootstraps everything, runs
\* with no usable manifest and no or all but one of the required templates, and a
\* populated directory with a header override and category.md listed before
\* body.category.md
RunStores ==
    {<<[exists |-> FALSE, files |-> <<>>], FullManifest>>,
     <<[exists |-> TRUE, files |-> <<>>], [kind |-> "absent", items |-> <<>>]>>,
     <<[exists |-> TRUE, files |-> <<>>], [kind |-> "invalid", items |-> <<>>]>>,
     <<[exists |-> TRUE, files |-> <<HeaderFile, DefaultFiles[5], DefaultFiles[1],
                                    DefaultFiles[2], DefaultFiles[3], DefaultFiles[4]>>],
       FullManifest>>,
     <<[exists |-> TRUE, files |-> <<DefaultFiles[1], DefaultFiles[3]>>], FullManifest>>}
    \cup {<<[exists |-> TRUE, files |-> RemoveAt(DefaultFiles, i)],
            [kind |-> "absent", items |-> <<>>]>> : i \in DOMAIN DefaultFiles}

RunTrees == Trees(MaxEntries) \cup {Append(t, File(README)) : t \in Trees(MaxEntries)}

RunConfigs ==
    {Cfg(<<"1">>, e, <<"1">>, <<"T", "r", "u", "e">>, d) :
        e \in {<<>>, <<"a">>}, d \in {<<"T", "R", "U", "E">>, <<"F", "a", "l", "s", "e">>}}

Init ==
    /\ tree \in RunTrees
    /\ config \in RunConfigs
    /\ \E s \in RunStores : tdir = s[1] /\ manifest = s[2]
    /\ pc = "import"
    /\ templates = <<>>
    /\ idx = 1
    /\ result = <<>>
    /\ warnings = <<>>
    /\ exc = "none"
    /\ stdout = <<>>
    /\ written = <<>>
    /\ bootLog = <<>>
    /\ categories = <<>>
    /\ shuffled = <<>>
    /\ original = <<>>
    /\ bodyOut = <<>>
    /\ catOut = <<>>
    /\ treeAtBody = NoTree
    /\ treeAtCat = NoTree
    /\ run = 1
    /\ firstPartial = <<>>
    /\ tree0 = tree

Next ==
    \/ DefineModule
    \/ PrimeGeneric
    \/ PrimeBody
    \/ PrimeCategory
    \/ Compose
    \/ SinkDry
    \/ SinkWriteRoot
    \/ SinkWritePartial
    \/ Rerun

Spec == Init /\ [][Next]_vars

RequiredTemplates ==
    {"heading.md", "body.heading.md", "body.category.md", "sources.md", "category.md"}

\* C7: in dry-run mode, with a valid config and the required templates present, the
\* run does not fail and prints exactly one JSON object whose keys are exactly "full"
\* (the primed heading.md, body.heading.md, body.category.md, sources.md, in that
\* order) and "partial" (the category.md handler's mapping); in every state of the
\* run the Sink has written no file: neither the root README.md nor any
\* <category>/README.md.
C7_DryRunWritesNothing ==
    SpellsTrue(config[Kdry]) =>
        /\ written = <<>>
        /\ tree = tree0
        /\ pc # "done" => stdout = <<>>
        /\ pc = "done" =>
              /\ Len(stdout) = 1
              /\ DOMAIN stdout[1] = {"full", "partial"}
              /\ stdout[1].full = <<result["heading.md"], result["body.heading.md"],
                                    result["body.category.md"], result["sources.md"]>>
              /\ stdout[1].partial = result["category.md"]
              /\ stdout[1].partial = Docs(catOut)
        /\ (pc = "crashed" /\ idx > Len(templates)) =>
              \E n \in RequiredTemplates : ~HasTemplate(templates, n)

\* a dry run finished on a tree with two categories that have no README.md yet
C7_Witness ==
    /\ SpellsTrue(config[Kdry])
    /\ pc = "done"
    /\ Len(stdout) = 1
    /\ Len(stdout[1].partial) = 2
    /\ \A i \in DOMAIN tree : tree[i].name # README /\ README \notin Range(tree[i].entries)

\* C8: if any of the five required template names is absent from the primed result,
\* the run ends with a lookup failure (KeyError) and never reaches the Sink: no
\* dry-run JSON has been printed and no README.md has been written, in either mode.
C8_MissingTemplateIsFatal ==
    LET missing == \E n \in RequiredTemplates : n \notin DOMAIN result
    IN  /\ pc \in {"sink", "partial", "done"} => ~missing
        /\ (pc \in {"prime", "crashed"} /\ idx > Len(templates) /\ missing) =>
              /\ stdout = <<>>
              /\ written = <<>>
              /\ pc = "crashed" => exc = "KeyError"

\* a normal-mode run died of the lookup with only category.md missing
C8_Witness ==
    /\ pc = "crashed"
    /\ exc = "KeyError"
    /\ ~SpellsTrue(config[Kdry])
    /\ DOMAIN result = RequiredTemplates \ {"category.md"}

\* the exclude arguments a later scan may be made with
ScanArguments == {ListArg(<<>>), StrArg(<<>>), StrArg(<<"a">>), StrArg(<<"b", ":", "a">>)}

\* C10: after a normal run wrote the root README.md and every <category>/README.md, a
\* scan returns the same categories and picture lists as before the run (the root
\* README.md is no category, no <category>/README.md is a picture), and a second run
\* over the otherwise unchanged tree, config and templates produces the same partial
\* mapping as the first.
C10_OutputIsNotInput ==
    /\ (pc = "done" /\ ~SpellsTrue(config[Kdry])) =>
          /\ [i \in DOMAIN written |-> written[i].path]
                = <<README>> \o [i \in DOMAIN catOut |-> catOut[i].category \o <<"/">> \o README]
          /\ \E i \in DOMAIN tree : tree[i].name = README /\ tree[i].isfile
          /\ \A i \in DOMAIN tree :
                (~tree[i].isfile /\ tree[i].name[1] # ".") => README \in Range(tree[i].entries)
          /\ \A ex \in ScanArguments :
                CategoricalWallpapers(tree, ex) = CategoricalWallpapers(tree0, ex)
    /\ (run >= 2 /\ CategoryDone) => result["category.md"] = firstPartial

\* the second run produced its partial mapping, for two categories, on a tree to which
\* the first run added the root README.md and the first category's README.md
C10_Witness ==
    /\ run = 2
    /\ CategoryDone
    /\ Len(firstPartial) = 2
    /\ \A i \in DOMAIN tree0 : tree0[i].name # README
    /\ README \notin Range(tree0[1].entries)
    /\ Len(PicturesOf(tree0[1])) = 1
    /\ tree[1].name = README

====
